---- MODULE Spec2Model ----
(***************************************************************************)
(* GiNZANaturalLanguageProcessing (src/src/ginza_nlp.py): the object holds  *)
(* one parsed Document (self.doc); every method optionally takes a text,   *)
(* replaces self.doc by the provider's parse of it, and then reads          *)
(* self.doc.  A method call is one action; its outcome (the value returned  *)
(* or the exception raised) is recorded in ret.                             *)
(*                                                                          *)
(* A token is its index token.i in the Document; a Document is the flat     *)
(* token array with the is_sent_start flags that delimit doc.sents, plus    *)
(* doc.ents and doc.noun_chunks.  A text is modelled by what the provider   *)
(* makes of it: its parse and its number of characters.                     *)
(*                                                                          *)
(* Each method is modelled from its own body.  The file as a whole is not   *)
(* valid Python (lines 558, 577 and 596 declare a parameter without a       *)
(* default after one with a default, in plotting methods that are not       *)
(* modelled here).                                                          *)
(***************************************************************************)
EXTENDS Integers, Sequences, FiniteSets, TLC

VARIABLES text, doc, ret

vars == <<text, doc, ret>>

\* Python's None, as a text, as self.doc and as a returned value
None == [none |-> TRUE]

\* symbols=None: no category set given
NoSymbols == {"None"}

\* ------------------------------------------------------------------ bounds
MaxSelTokens == 3
MaxWalkTokens == 3
MaxDepth == 4
MaxPad == 1
MaxNegTokens == 2
MaxConcatTokens == 2
MaxTabTokens == 1

\* -------------------------------------------------------- the parse tree
Tok(pos, dep, lemma, is_stop, head, is_sent_start) ==
  [pos |-> pos, dep |-> dep, lemma |-> lemma, is_stop |-> is_stop,
   head |-> head, is_sent_start |-> is_sent_start]

Document(tokens, ents, noun_chunks) ==
  [tokens |-> tokens, ents |-> ents, noun_chunks |-> noun_chunks]

Text(parse, len) == [parse |-> parse, len |-> len]

\* self.nlp(text): the provider's parse of the text
nlp(t) == t.parse

\* len(text): the number of characters of the text
len(t) == t.len

\* the first token of the sentence that holds token i
RECURSIVE sent_start(_, _)
sent_start(d, i) ==
  IF i <= 1 \/ d.tokens[i].is_sent_start THEN i ELSE sent_start(d, i - 1)

\* the last token of the sentence that starts at token s
RECURSIVE sent_end(_, _)
sent_end(d, i) ==
  IF i >= Len(d.tokens) \/ d.tokens[i + 1].is_sent_start THEN i
  ELSE sent_end(d, i + 1)

\* doc.sents: the sentences in order, each a span <<first, last>>
RECURSIVE sents_from(_, _)
sents_from(d, s) ==
  IF s > Len(d.tokens) THEN <<>>
  ELSE <<(<<s, sent_end(d, s)>>)>> \o sents_from(d, sent_end(d, s) + 1)

sents(d) == sents_from(d, 1)

\* "for sent in doc.sents: for token in sent": the tokens in iteration order
RECURSIVE span_tokens(_, _)
span_tokens(s, e) == IF s > e THEN <<>> ELSE <<s>> \o span_tokens(s + 1, e)

RECURSIVE flatten(_, _)
flatten(ss, k) ==
  IF k > Len(ss) THEN <<>>
  ELSE span_tokens(ss[k][1], ss[k][2]) \o flatten(ss, k + 1)

sent_tokens(d) == flatten(sents(d), 1)

\* token.head
head(d, i) == d.tokens[i].head

\* --------------------------------------------------------- method outcomes
\* What a call leaves behind: self.doc after it, and either the value it
\* returned (status "ok") or the exception it raised.
Returned(d, value) == [doc |-> d, status |-> "ok", value |-> value]

Raised(d, exc) == [doc |-> d, status |-> exc, value |-> None]

\* "if not text is None: self.doc = self.nlp(text)"
set_text(self_doc, t) == IF t # None THEN nlp(t) ELSE self_doc

\* "x in symbols" for a list of codes
in_symbols(x, symbols) == x \in symbols

\* ---------------------------------------------------------- token selectors
\* _get_tokens: after the optional parse, the loop reads the unbound name
\* "doc" (not self.doc), which raises NameError before any token is visited.
\* The rest of the body is kept in _get_tokens_body, which no call reaches.
_get_tokens_body(d, symbols) ==
  SelectSeq(sent_tokens(d),
            LAMBDA i : symbols = NoSymbols \/ in_symbols(d.tokens[i].pos, symbols))

_get_tokens(self_doc, t, symbols) ==
  LET d == set_text(self_doc, t) IN Raised(d, "NameError")

get_tokens(self_doc, t) == _get_tokens(self_doc, t, NoSymbols)

NounSymbols == {"NOUN", "PROPN", "PRON"}
MeaningfulSymbols == {"NOUN", "PROPN", "PRON", "VERB", "ADJ", "ADV"}
MeaninglessSymbols ==
  {"INTJ", "PUNCT", "SYM", "X", "NUM", "AUX", "CONJ", "SCONJ", "DET", "ADP", "PART"}

\* the fixed category set of each named accessor built on _get_tokens
TokenAccessors ==
  [get_tokens |-> NoSymbols,
   get_noun_tokens |-> NounSymbols,
   get_verb_tokens |-> {"VERB"},
   get_adjective_tokens |-> {"ADJ"},
   get_adverb_tokens |-> {"ADV"},
   get_numeral_tokens |-> {"NUM"},
   get_auxiliary_verb_tokens |-> {"AUX"},
   get_conjunction_tokens |-> {"CONJ", "SCONJ"},
   get_postpositional_particle_tokens |-> {"ADP", "PART"}]

get_meaningful_tokens(self_doc, t) ==
  LET r == _get_tokens(self_doc, t, MeaningfulSymbols) IN
  IF r.status # "ok" THEN r
  ELSE Returned(r.doc,
         SelectSeq(r.value,
                   LAMBDA i : ~ in_symbols(r.doc.tokens[head(r.doc, i)].pos, NounSymbols)))

_get_tokens_except(self_doc, t, symbols) ==
  LET d == set_text(self_doc, t) IN
  IF d = None THEN Raised(d, "AttributeError")
  ELSE Returned(d,
         SelectSeq(sent_tokens(d),
                   LAMBDA i : symbols = NoSymbols \/ ~ in_symbols(d.tokens[i].pos, symbols)))

\* get_tokens_except_noun passes "tex=text": the call of _get_tokens_except
\* raises TypeError (unexpected keyword argument) before its body runs.
get_tokens_except_noun(self_doc, t) == Raised(self_doc, "TypeError")

\* the fixed category set of the other named accessors on _get_tokens_except
ExceptAccessors ==
  [get_tokens_except_verb |-> {"VERB"},
   get_tokens_except_adjective |-> {"ADJ"},
   get_tokens_except_adverb |-> {"ADV"},
   get_tokens_except_numeral |-> {"NUM"},
   get_tokens_except_auxiliary_verb |-> {"AUX"},
   get_tokens_except_conjunction |-> {"CONJ", "SCONJ"},
   get_tokens_except_postpositional_particle |-> {"ADP", "PART"},
   get_tokens_except_meaningless |-> MeaninglessSymbols]

\* ------------------------------------------------------- relation selectors
_get_token_syntaxes(self_doc, t, symbols) ==
  LET d == set_text(self_doc, t)
      kept == IF d = None THEN <<>>
              ELSE SelectSeq(sent_tokens(d),
                     LAMBDA i : symbols = NoSymbols \/ in_symbols(d.tokens[i].dep, symbols))
  IN
  IF d = None THEN Raised(d, "AttributeError")
  ELSE Returned(d, [k \in 1..Len(kept) |-> <<kept[k], head(d, kept[k])>>])

\* a root set that misses the provider's spelling of the label
RootSymbols_lower_only == {"root"}

\* symbols=['root', 'ROOT'] of get_root_token_syntaxes
RootSymbols == {"root", "ROOT"}

\* the fixed relation set of each named accessor built on _get_token_syntaxes
SyntaxAccessors ==
  [get_token_syntaxes |-> NoSymbols,
   get_root_token_syntaxes |-> RootSymbols,
   get_predicate_token_syntaxes |->
     {"nsubj", "nsubjpass", "dobj", "iobj", "nmod", "csubj", "ccomp", "advcl", "advmod", "neg"},
   get_noun_token_syntaxes |-> {"nummod", "appos", "acl", "amod", "det"},
   get_compound_word_token_syntaxes |-> {"compound", "name", "mwe", "foreign"},
   get_parallel_token_syntaxes |-> {"conj", "cc"},
   get_other_token_syntaxes |-> {"aux", "cop", "mark", "case", "punct"}]

\* ------------------------------------------------------------ ancestor walk
\* The while loop shared by the three walks: tok is _token, chain the list
\* built so far.  Each iteration appends tok, stops at a self-headed token,
\* and otherwise moves to tok's head.
RECURSIVE walk(_, _, _, _, _)
walk(d, tok, ith, nth, chain) ==
  IF ~ (ith < nth) THEN chain
  ELSE LET appended == Append(chain, tok) IN
       IF tok = head(d, tok) THEN appended
       ELSE walk(d, head(d, tok), ith + 1, nth, appended)

\* the distinct elements of a list (the keys of the dict built over it)
keys(seq) == {seq[k] : k \in 1..Len(seq)}

get_nth_depth_token_syntaxes(self_doc, t, nth) ==
  LET r == get_tokens(self_doc, t) IN
  IF r.status # "ok" THEN r
  ELSE Returned(r.doc,
         [token \in keys(r.value) |-> walk(r.doc, head(r.doc, token), 0, nth, <<>>)])

\* len(text) is evaluated first: TypeError when no text is given
get_full_depth_token_syntaxes(self_doc, t) ==
  IF t = None THEN Raised(self_doc, "TypeError")
  ELSE get_nth_depth_token_syntaxes(self_doc, t, len(t))

get_named_entities(self_doc, t) ==
  LET d == set_text(self_doc, t) IN
  IF d = None THEN Raised(d, "AttributeError") ELSE Returned(d, d.ents)

\* The loop body reads the unbound names "entry" and "_entry": the first
\* entity raises NameError; without entities the empty dict is returned.
get_nth_depth_named_entity_syntaxes(self_doc, t, nth) ==
  LET r == get_named_entities(self_doc, t) IN
  IF r.status # "ok" THEN r
  ELSE IF Len(r.value) > 0 THEN Raised(r.doc, "NameError")
  ELSE Returned(r.doc, <<>>)

get_full_depth_named_entity_syntaxes(self_doc, t) ==
  IF t = None THEN Raised(self_doc, "TypeError")
  ELSE get_nth_depth_named_entity_syntaxes(self_doc, t, len(t))

get_noun_chunks(self_doc, t) ==
  LET d == set_text(self_doc, t) IN
  IF d = None THEN Raised(d, "AttributeError") ELSE Returned(d, d.noun_chunks)

\* keyed by the chunk, here its place in doc.noun_chunks
get_nth_depth_noun_chunk_syntaxes(self_doc, t, nth) ==
  LET r == get_noun_chunks(self_doc, t) IN
  IF r.status # "ok" THEN r
  ELSE Returned(r.doc,
         [c \in 1..Len(r.value) |->
            walk(r.doc, head(r.doc, r.value[c].root), 0, nth, <<>>)])

get_full_depth_noun_chunk_syntaxes(self_doc, t) ==
  IF t = None THEN Raised(self_doc, "TypeError")
  ELSE get_nth_depth_noun_chunk_syntaxes(self_doc, t, len(t))

\* ------------------------------------------------------ negation classifier
\* The lemmas the rules test, in Latin letters:
\*   "nai" ない   "nu" ぬ   "zu" ず   "nikui" にくい
\*   "nakunaru_kana" なくなる   "nakunaru_kanji" 無くなる
\* the number of if-statements in the loop body of check_negative_sentence
NumRules == 12

\* negative_rule with the head test of the first if-statement left in the
\* second
negative_rule_overlapping(r, d, i) ==
  LET token == d.tokens[i]
      head_pos == d.tokens[token.head].pos
  IN
  CASE r = 1 -> token.lemma = "nai" /\ token.pos = "AUX" /\ token.is_stop /\ head_pos = "VERB"
    [] r = 2 -> token.lemma = "nai" /\ token.pos = "AUX" /\ token.is_stop /\ head_pos \in {"VERB", "NOUN"}
    [] r = 3 -> token.lemma = "nai" /\ token.pos = "AUX" /\ token.is_stop /\ head_pos = "ADV"
    [] r = 4 -> token.lemma = "nai" /\ token.pos = "ADJ" /\ token.is_stop /\ head_pos = "NOUN"
    [] r = 5 -> token.lemma = "nai" /\ token.pos = "ADJ" /\ token.is_stop /\ head_pos = "VERB"
    [] r = 6 -> token.lemma = "nai" /\ token.pos = "ADJ" /\ token.is_stop /\ head_pos = "ADJ"
    [] r = 7 -> token.lemma = "nai" /\ token.pos = "ADJ" /\ token.is_stop /\ head_pos = "ADV"
    [] r = 8 -> token.lemma = "nu" /\ token.pos = "AUX" /\ token.is_stop /\ head_pos = "VERB"
    [] r = 9 -> token.lemma = "zu" /\ token.pos = "AUX" /\ token.is_stop /\ head_pos = "VERB"
    [] r = 10 -> token.lemma = "zu" /\ token.pos = "AUX" /\ token.is_stop /\ head_pos = "ADV"
    [] r = 11 -> token.lemma = "nikui" /\ token.pos = "AUX" /\ head_pos = "VERB"
    [] r = 12 -> token.lemma \in {"nakunaru_kana", "nakunaru_kanji"} /\ token.pos = "VERB"

\* The condition of the r-th if-statement of the loop body, in the order of
\* the source, on token i.
negative_rule(r, d, i) ==
  LET token == d.tokens[i]
      head_pos == d.tokens[token.head].pos
  IN
  CASE r = 1 -> token.lemma = "nai" /\ token.pos = "AUX" /\ token.is_stop /\ head_pos = "VERB"
    [] r = 2 -> token.lemma = "nai" /\ token.pos = "AUX" /\ token.is_stop /\ head_pos = "NOUN"
    [] r = 3 -> token.lemma = "nai" /\ token.pos = "AUX" /\ token.is_stop /\ head_pos = "ADV"
    [] r = 4 -> token.lemma = "nai" /\ token.pos = "ADJ" /\ token.is_stop /\ head_pos = "NOUN"
    [] r = 5 -> token.lemma = "nai" /\ token.pos = "ADJ" /\ token.is_stop /\ head_pos = "VERB"
    [] r = 6 -> token.lemma = "nai" /\ token.pos = "ADJ" /\ token.is_stop /\ head_pos = "ADJ"
    [] r = 7 -> token.lemma = "nai" /\ token.pos = "ADJ" /\ token.is_stop /\ head_pos = "ADV"
    [] r = 8 -> token.lemma = "nu" /\ token.pos = "AUX" /\ token.is_stop /\ head_pos = "VERB"
    [] r = 9 -> token.lemma = "zu" /\ token.pos = "AUX" /\ token.is_stop /\ head_pos = "VERB"
    [] r = 10 -> token.lemma = "zu" /\ token.pos = "AUX" /\ token.is_stop /\ head_pos = "ADV"
    [] r = 11 -> token.lemma = "nikui" /\ token.pos = "AUX" /\ head_pos = "VERB"
    [] r = 12 -> token.lemma \in {"nakunaru_kana", "nakunaru_kanji"} /\ token.pos = "VERB"

\* token_is_negative with the stop-word test copied into the "nikui" rule
token_is_negative_nikui_stop(d, i) ==
  LET token == d.tokens[i]
      head_pos == d.tokens[token.head].pos
  IN
  \/ token.lemma = "nai" /\ token.pos = "AUX" /\ token.is_stop
       /\ head_pos \in {"VERB", "NOUN", "ADV"}
  \/ token.lemma = "nai" /\ token.pos = "ADJ" /\ token.is_stop
       /\ head_pos \in {"NOUN", "VERB", "ADJ", "ADV"}
  \/ token.lemma = "nu" /\ token.pos = "AUX" /\ token.is_stop /\ head_pos = "VERB"
  \/ token.lemma = "zu" /\ token.pos = "AUX" /\ token.is_stop
       /\ head_pos \in {"VERB", "ADV"}
  \/ token.lemma = "nikui" /\ token.pos = "AUX" /\ token.is_stop /\ head_pos = "VERB"
  \/ token.lemma \in {"nakunaru_kana", "nakunaru_kanji"} /\ token.pos = "VERB"

\* The if-statements of the loop body, each returning True: whether the
\* token makes check_negative_sentence return True.
token_is_negative(d, i) == \E r \in 1..NumRules : negative_rule(r, d, i)

\* the scan over the tokens in iteration order: True at the first match,
\* False when the tokens are exhausted
RECURSIVE scan_negative(_, _, _)
scan_negative(d, toks, k) ==
  IF k > Len(toks) THEN FALSE
  ELSE IF token_is_negative(d, toks[k]) THEN TRUE
  ELSE scan_negative(d, toks, k + 1)

\* check_negative_sentence with "return False" inside the loop: only the
\* first token is tested
check_negative_sentence_early_false(self_doc, t) ==
  LET d == set_text(self_doc, t) IN
  IF d = None THEN Raised(d, "AttributeError")
  ELSE Returned(d, sent_tokens(d) # <<>> /\ token_is_negative(d, sent_tokens(d)[1]))

check_negative_sentence(self_doc, t) ==
  LET d == set_text(self_doc, t) IN
  IF d = None THEN Raised(d, "AttributeError")
  ELSE Returned(d, scan_negative(d, sent_tokens(d), 1))

\* set_doc(text)
set_doc(self_doc, t) == Returned(nlp(t), None)

\* ---------------------------------------------------------- category tables
\* A display name is written as the code points of its characters.
\* uid_to_jp of convert_token_pos_UID_to_jp
pos_uid_to_jp ==
  ("ADJ" :> "U5F62.U5BB9.U8A5E")
  @@ ("ADP" :> "U63A5.U7F6E.U8A5E")
  @@ ("ADV" :> "U526F.U8A5E")
  @@ ("AUX" :> "U52A9.U52D5.U8A5E")
  @@ ("CCONJ" :> "U63A5.U7D9A.U8A5E")
  @@ ("DET" :> "U9650.U5B9A.U8A5E")
  @@ ("INTJ" :> "U611F.U5606.U7B26")
  @@ ("NOUN" :> "U540D.U8A5E")
  @@ ("NUM" :> "U6570.U8A5E")
  @@ ("PART" :> "U52A9.U8A5E")
  @@ ("PRON" :> "U56FA.U6709.U540D.U8A5E")
  @@ ("PROPN" :> "U4EE3.U540D.U8A5E")
  @@ ("PUNCT" :> "U53E5.U8AAD.U70B9")
  @@ ("SCONJ" :> "U5F93.U5C5E.U63A5.U7D9A.U8A5E")
  @@ ("SYM" :> "U8A18.U53F7")
  @@ ("VERB" :> "U52D5.U8A5E")
  @@ ("X" :> "U305D.U306E.U4ED6")

\* uid_to_jp of convert_token_dep_UID_to_jp
dep_uid_to_jp ==
  ("acl" :> "U540D.U8A5E.U7BC0.U4FEE.U98FE.U8A9E")
  @@ ("advcl" :> "U526F.U8A5E.U7BC0.U4FEE.U98FE.U8A9E")
  @@ ("advmod" :> "U526F.U8A5E.U4FEE.U98FE.U8A9E")
  @@ ("amod" :> "U5F62.U5BB9.U8A5E.U4FEE.U98FE.U8A9E")
  @@ ("appos" :> "U540C.U683C")
  @@ ("aux" :> "U52A9.U52D5.U8A5E")
  @@ ("case" :> "U683C.U8868.U73FE")
  @@ ("cc" :> "U7B49.U4F4D.U63A5.U7D9A.U8A5E")
  @@ ("ccomp" :> "U6355.U6587")
  @@ ("clf" :> "U985E.U5225.U8A5E")
  @@ ("compound" :> "U8907.U5408.U540D.U8A5E")
  @@ ("conj" :> "U7D50.U5408.U8A5E")
  @@ ("cop" :> "U9023.U7D50.U8A5E")
  @@ ("csubj" :> "U4E3B.U90E8")
  @@ ("dep" :> "U4E0D.U660E.U306A.U4F9D.U5B58.U95A2.U4FC2")
  @@ ("det" :> "U9650.U5B9A.U8A5E")
  @@ ("discourse" :> "U8AC7.U8A71.U8981.U7D20")
  @@ ("dislocated" :> "U8EE2.U7F6E")
  @@ ("expl" :> "U5618.U8F9E")
  @@ ("fixed" :> "U56FA.U5B9A.U8907.U6570.U5358.U8A9E.U8868.U73FE")
  @@ ("flat" :> "U540C.U683C.U8907.U6570.U5358.U8A9E.U8868.U73FE")
  @@ ("goeswith" :> "U4E00.U5358.U8A9E.U5206.U5272.U8868.U73FE")
  @@ ("iobj" :> "U9593.U63A5.U76EE.U7684.U8A9E")
  @@ ("list" :> "U30EA.U30B9.U30C8.U8868.U73FE")
  @@ ("mark" :> "U63A5.U7D9A.U8A5E")
  @@ ("nmod" :> "U540D.U8A5E.U4FEE.U98FE.U8A9E")
  @@ ("nsubj" :> "U4E3B.U8A9E.U540D.U8A5E")
  @@ ("nummod" :> "U6570.U8A5E.U4FEE.U98FE.U8A9E")
  @@ ("obj" :> "U76EE.U7684.U8A9E")
  @@ ("obl" :> "U659C.U683C.U540D.U8A5E")
  @@ ("orphan" :> "U72EC.U7ACB.U95A2.U4FC2")
  @@ ("parataxis" :> "U4E26.U5217")
  @@ ("punct" :> "U53E5.U8AAD.U70B9")
  @@ ("reparandu" :> "U5358.U8A9E.U3068.U3057.U3066.U8A8D.U8B58.U3055.U308C.U306A.U3044.U5358.U8A9E.U8868.U73FE")
  @@ ("root" :> "U6587.U306E.U6839")
  @@ ("vocation" :> "U767A.U58F0.U95A2.U4FC2")
  @@ ("xcomp" :> "U88DC.U4F53")

\* str.upper() and str.lower() on the codes looked up: the strings that
\* change, with what they become
UpperCased ==
  ("acl" :> "ACL")
  @@ ("adj" :> "ADJ")
  @@ ("adp" :> "ADP")
  @@ ("adv" :> "ADV")
  @@ ("advcl" :> "ADVCL")
  @@ ("advmod" :> "ADVMOD")
  @@ ("amod" :> "AMOD")
  @@ ("appos" :> "APPOS")
  @@ ("aux" :> "AUX")
  @@ ("case" :> "CASE")
  @@ ("cc" :> "CC")
  @@ ("ccomp" :> "CCOMP")
  @@ ("cconj" :> "CCONJ")
  @@ ("clf" :> "CLF")
  @@ ("compound" :> "COMPOUND")
  @@ ("conj" :> "CONJ")
  @@ ("cop" :> "COP")
  @@ ("csubj" :> "CSUBJ")
  @@ ("dep" :> "DEP")
  @@ ("det" :> "DET")
  @@ ("discourse" :> "DISCOURSE")
  @@ ("dislocated" :> "DISLOCATED")
  @@ ("dobj" :> "DOBJ")
  @@ ("expl" :> "EXPL")
  @@ ("fixed" :> "FIXED")
  @@ ("flat" :> "FLAT")
  @@ ("foreign" :> "FOREIGN")
  @@ ("goeswith" :> "GOESWITH")
  @@ ("intj" :> "INTJ")
  @@ ("iobj" :> "IOBJ")
  @@ ("list" :> "LIST")
  @@ ("mark" :> "MARK")
  @@ ("mwe" :> "MWE")
  @@ ("name" :> "NAME")
  @@ ("neg" :> "NEG")
  @@ ("nmod" :> "NMOD")
  @@ ("noun" :> "NOUN")
  @@ ("nsubj" :> "NSUBJ")
  @@ ("nsubjpass" :> "NSUBJPASS")
  @@ ("num" :> "NUM")
  @@ ("nummod" :> "NUMMOD")
  @@ ("obj" :> "OBJ")
  @@ ("obl" :> "OBL")
  @@ ("orphan" :> "ORPHAN")
  @@ ("parataxis" :> "PARATAXIS")
  @@ ("part" :> "PART")
  @@ ("pron" :> "PRON")
  @@ ("propn" :> "PROPN")
  @@ ("punct" :> "PUNCT")
  @@ ("reparandu" :> "REPARANDU")
  @@ ("root" :> "ROOT")
  @@ ("sconj" :> "SCONJ")
  @@ ("sym" :> "SYM")
  @@ ("verb" :> "VERB")
  @@ ("vocation" :> "VOCATION")
  @@ ("x" :> "X")
  @@ ("xcomp" :> "XCOMP")
  @@ ("xyz" :> "XYZ")

\* the strings str.lower() changes
LowerCased ==
  ("ACL" :> "acl")
  @@ ("ADJ" :> "adj")
  @@ ("ADP" :> "adp")
  @@ ("ADV" :> "adv")
  @@ ("ADVCL" :> "advcl")
  @@ ("ADVMOD" :> "advmod")
  @@ ("AMOD" :> "amod")
  @@ ("APPOS" :> "appos")
  @@ ("AUX" :> "aux")
  @@ ("CASE" :> "case")
  @@ ("CC" :> "cc")
  @@ ("CCOMP" :> "ccomp")
  @@ ("CCONJ" :> "cconj")
  @@ ("CLF" :> "clf")
  @@ ("COMPOUND" :> "compound")
  @@ ("CONJ" :> "conj")
  @@ ("COP" :> "cop")
  @@ ("CSUBJ" :> "csubj")
  @@ ("DEP" :> "dep")
  @@ ("DET" :> "det")
  @@ ("DISCOURSE" :> "discourse")
  @@ ("DISLOCATED" :> "dislocated")
  @@ ("DOBJ" :> "dobj")
  @@ ("EXPL" :> "expl")
  @@ ("FIXED" :> "fixed")
  @@ ("FLAT" :> "flat")
  @@ ("FOREIGN" :> "foreign")
  @@ ("GOESWITH" :> "goeswith")
  @@ ("INTJ" :> "intj")
  @@ ("IOBJ" :> "iobj")
  @@ ("LIST" :> "list")
  @@ ("MARK" :> "mark")
  @@ ("MWE" :> "mwe")
  @@ ("NAME" :> "name")
  @@ ("NEG" :> "neg")
  @@ ("NMOD" :> "nmod")
  @@ ("NOUN" :> "noun")
  @@ ("NSUBJ" :> "nsubj")
  @@ ("NSUBJPASS" :> "nsubjpass")
  @@ ("NUM" :> "num")
  @@ ("NUMMOD" :> "nummod")
  @@ ("OBJ" :> "obj")
  @@ ("OBL" :> "obl")
  @@ ("ORPHAN" :> "orphan")
  @@ ("PARATAXIS" :> "parataxis")
  @@ ("PART" :> "part")
  @@ ("PRON" :> "pron")
  @@ ("PROPN" :> "propn")
  @@ ("PUNCT" :> "punct")
  @@ ("REPARANDU" :> "reparandu")
  @@ ("ROOT" :> "root")
  @@ ("SCONJ" :> "sconj")
  @@ ("SYM" :> "sym")
  @@ ("VERB" :> "verb")
  @@ ("VOCATION" :> "vocation")
  @@ ("X" :> "x")
  @@ ("XCOMP" :> "xcomp")
  @@ ("XYZ" :> "xyz")

upper(s) == IF s \in DOMAIN UpperCased THEN UpperCased[s] ELSE s

lower(s) == IF s \in DOMAIN LowerCased THEN LowerCased[s] ELSE s

\* uid=None: no code given
NoUid == "<None>"

\* getitem that falls back to a default name, as uid_to_jp.get(key, ...) would
getitem_with_default(uid_to_jp, key) ==
  IF key \in DOMAIN uid_to_jp THEN Returned(None, uid_to_jp[key])
  ELSE Returned(None, "default")

\* uid_to_jp[key]: KeyError (a LookupError) when the key is absent
getitem(uid_to_jp, key) ==
  IF key \in DOMAIN uid_to_jp THEN Returned(None, uid_to_jp[key])
  ELSE Raised(None, "KeyError")

convert_token_pos_UID_to_jp(uid) ==
  IF uid = NoUid THEN Returned(None, pos_uid_to_jp)
  ELSE getitem(pos_uid_to_jp, upper(uid))

convert_token_dep_UID_to_jp(uid) ==
  IF uid = NoUid THEN Returned(None, dep_uid_to_jp)
  ELSE getitem(dep_uid_to_jp, lower(uid))

\* ------------------------------------------------- the provider's documents
\* token i and token j lie in the same sentence
same_sentence(starts, i, j) ==
  LET lo == IF i < j THEN i ELSE j
      hi == IF i < j THEN j ELSE i
  IN \A k \in (lo + 1)..hi : ~ starts[k]

\* Sentence boundaries and head pointers over n tokens: the first token
\* starts a sentence and every head lies in its token's sentence.
Shapes(n) ==
  {sh \in [starts : [1..n -> BOOLEAN], heads : [1..n -> 1..n]] :
     /\ n > 0 => sh.starts[1]
     /\ \A i \in 1..n : same_sentence(sh.starts, i, sh.heads[i])}

\* following head pointers from token i reaches a self-headed token
RECURSIVE reaches_root(_, _, _)
reaches_root(heads, i, fuel) ==
  IF heads[i] = i THEN TRUE
  ELSE IF fuel = 0 THEN FALSE
  ELSE reaches_root(heads, heads[i], fuel - 1)

\* the tree invariant of the parse: one self-headed root per sentence, and
\* every head chain ends in it
well_formed_shape(n, sh) ==
  /\ \A i \in 1..n : reaches_root(sh.heads, i, n)
  /\ \A i, j \in 1..n :
       (sh.heads[i] = i /\ sh.heads[j] = j /\ same_sentence(sh.starts, i, j)) => i = j

WellFormedShapes(n) == {sh \in Shapes(n) : well_formed_shape(n, sh)}

WellFormed(d) ==
  LET n == Len(d.tokens) IN
  well_formed_shape(n, [starts |-> [i \in 1..n |-> d.tokens[i].is_sent_start],
                        heads |-> [i \in 1..n |-> d.tokens[i].head]])

Span(start, end, root) == [start |-> start, end |-> end, root |-> root]

\* a Document of n tokens: attr gives each token's pos, lemma and is_stop,
\* dep its relation; c > 0 makes token c a one-token entity and noun chunk
MakeDoc(n, sh, attr, dep, c) ==
  Document([i \in 1..n |->
              Tok(attr[i].pos, dep[i], attr[i].lemma, attr[i].is_stop,
                  sh.heads[i], sh.starts[i])],
           IF c = 0 THEN <<>> ELSE <<Span(c, c, c)>>,
           IF c = 0 THEN <<>> ELSE <<Span(c, c, c)>>)

Attr(pos, lemma, is_stop) == [pos |-> pos, lemma |-> lemma, is_stop |-> is_stop]

\* the provider labels the self-headed token of a sentence ROOT
RootDep(n, sh, other) == [i \in 1..n |-> IF sh.heads[i] = i THEN "ROOT" ELSE other[i]]

\* Texts for the selectors: head-final parses (each token's head is the next
\* token of its sentence, the last token the root) over a sample of the
\* part-of-speech codes, each token's relation following from its code.
SelPos == {"NOUN", "VERB", "AUX"}

SelDep(pos) ==
  CASE pos = "NOUN" -> "nsubj"
    [] pos = "VERB" -> "advcl"
    [] OTHER -> "aux"

HeadFinalShapes(n) ==
  {sh \in WellFormedShapes(n) : \A i \in 1..n : sh.heads[i] \in {i, i + 1}}

SelDoc(n, sh, pos) ==
  MakeDoc(n, sh, [i \in 1..n |-> Attr(pos[i], "suru", FALSE)],
          RootDep(n, sh, [i \in 1..n |-> SelDep(pos[i])]), 0)

SelText(t) ==
  \E n \in 0..MaxSelTokens :
    \E sh \in HeadFinalShapes(n), pos \in [1..n -> SelPos] :
      t = Text(SelDoc(n, sh, pos), n)

\* Texts for the category-table lookups, which read no Document: the
\* selector texts of at most MaxTabTokens tokens.
TabText(t) == SelText(t) /\ Len(nlp(t).tokens) <= MaxTabTokens

\* Texts for the ancestor walks: every shape, well-formed or not, with at
\* most one entity / noun chunk, and up to MaxPad characters beyond one per
\* token.
WalkDoc(n, sh, c) ==
  MakeDoc(n, sh, [i \in 1..n |-> Attr("NOUN", "suru", FALSE)],
          RootDep(n, sh, [i \in 1..n |-> "dep"]), c)

WalkText(t) ==
  \E n \in 0..MaxWalkTokens :
    \E sh \in Shapes(n), c \in 0..n, pad \in 0..MaxPad :
      t = Text(WalkDoc(n, sh, c), n + pad)

\* Texts for the negation classifier: well-formed parses in which one token
\* ranges over every lemma, code and stop-word flag the rules read, and the
\* others over every code.
NegLemmas == {"nai", "nu", "zu", "nikui", "nakunaru_kana", "nakunaru_kanji", "suru"}

NegPos == {"AUX", "ADJ", "VERB", "NOUN", "ADV"}

NegProbes == [pos : NegPos, lemma : NegLemmas, is_stop : BOOLEAN]

NegDoc(n, sh, p, probe, others) ==
  MakeDoc(n, sh,
          [i \in 1..n |-> IF i = p THEN probe ELSE Attr(others[i], "suru", FALSE)],
          RootDep(n, sh, [i \in 1..n |-> "dep"]), 0)

NegText(t) ==
  \E n \in 0..MaxNegTokens :
    \E sh \in WellFormedShapes(n), p \in {q \in 0..n : q > 0 \/ n = 0},
       probe \in NegProbes, others \in [1..n -> NegPos] :
      t = Text(NegDoc(n, sh, p, probe, others), n)

\* ------------------------------------------------------------------ actions
\* the text argument of a call: none, or the caller's text
TextArg == {None, text}

\* the category sets and depths a caller passes to the primitives
SymbolArgs == {NoSymbols} \cup SUBSET SelPos

RelationArgs == {NoSymbols, RootSymbols, {"nsubj", "aux"}, {"advcl"}}

DepthArgs == 0..MaxDepth

NoDepth == -1

\* A call of a method: self.doc and the outcome after it.
Call(op, t, symbols, nth, r) ==
  /\ doc' = r.doc
  /\ ret' = [op |-> op, with_text |-> t # None, symbols |-> symbols, nth |-> nth,
             status |-> r.status, value |-> r.value]
  /\ UNCHANGED text

SetDoc ==
  \E t \in {text} : Call("set_doc", t, NoSymbols, NoDepth, set_doc(doc, t))

GetTokensPrimitive ==
  \E t \in TextArg, symbols \in SymbolArgs :
    Call("_get_tokens", t, symbols, NoDepth, _get_tokens(doc, t, symbols))

TokenAccessor ==
  \E t \in TextArg, name \in DOMAIN TokenAccessors :
    Call(name, t, TokenAccessors[name], NoDepth, _get_tokens(doc, t, TokenAccessors[name]))

GetMeaningfulTokens ==
  \E t \in TextArg :
    Call("get_meaningful_tokens", t, MeaningfulSymbols, NoDepth, get_meaningful_tokens(doc, t))

GetTokensExceptPrimitive ==
  \E t \in TextArg, symbols \in SymbolArgs :
    Call("_get_tokens_except", t, symbols, NoDepth, _get_tokens_except(doc, t, symbols))

GetTokensExceptNoun ==
  \E t \in TextArg :
    Call("get_tokens_except_noun", t, NounSymbols, NoDepth, get_tokens_except_noun(doc, t))

ExceptAccessor ==
  \E t \in TextArg, name \in DOMAIN ExceptAccessors :
    Call(name, t, ExceptAccessors[name], NoDepth,
         _get_tokens_except(doc, t, ExceptAccessors[name]))

GetTokenSyntaxesPrimitive ==
  \E t \in TextArg, symbols \in RelationArgs :
    Call("_get_token_syntaxes", t, symbols, NoDepth, _get_token_syntaxes(doc, t, symbols))

SyntaxAccessor ==
  \E t \in TextArg, name \in DOMAIN SyntaxAccessors :
    Call(name, t, SyntaxAccessors[name], NoDepth,
         _get_token_syntaxes(doc, t, SyntaxAccessors[name]))

GetNthDepthTokenSyntaxes ==
  \E t \in TextArg, nth \in DepthArgs :
    Call("get_nth_depth_token_syntaxes", t, NoSymbols, nth,
         get_nth_depth_token_syntaxes(doc, t, nth))

GetFullDepthTokenSyntaxes ==
  \E t \in TextArg :
    Call("get_full_depth_token_syntaxes", t, NoSymbols, NoDepth,
         get_full_depth_token_syntaxes(doc, t))

GetNthDepthNamedEntitySyntaxes ==
  \E t \in TextArg, nth \in DepthArgs :
    Call("get_nth_depth_named_entity_syntaxes", t, NoSymbols, nth,
         get_nth_depth_named_entity_syntaxes(doc, t, nth))

GetFullDepthNamedEntitySyntaxes ==
  \E t \in TextArg :
    Call("get_full_depth_named_entity_syntaxes", t, NoSymbols, NoDepth,
         get_full_depth_named_entity_syntaxes(doc, t))

GetNthDepthNounChunkSyntaxes ==
  \E t \in TextArg, nth \in DepthArgs :
    Call("get_nth_depth_noun_chunk_syntaxes", t, NoSymbols, nth,
         get_nth_depth_noun_chunk_syntaxes(doc, t, nth))

GetFullDepthNounChunkSyntaxes ==
  \E t \in TextArg :
    Call("get_full_depth_noun_chunk_syntaxes", t, NoSymbols, NoDepth,
         get_full_depth_noun_chunk_syntaxes(doc, t))

CheckNegativeSentence ==
  \E t \in TextArg :
    Call("check_negative_sentence", t, NoSymbols, NoDepth, check_negative_sentence(doc, t))

\* ----------------------------------------------------------- specifications
\* __init__: no Document is held; nothing has been called
Constructed ==
  /\ doc = None
  /\ ret = [op |-> "__init__", with_text |-> FALSE, symbols |-> NoSymbols,
            nth |-> NoDepth, status |-> "ok", value |-> None]

\* the selectors (and the classifier) on the selector texts
InitSel == SelText(text) /\ Constructed

NextSel ==
  \/ SetDoc
  \/ GetTokensPrimitive
  \/ TokenAccessor
  \/ GetMeaningfulTokens
  \/ GetTokensExceptPrimitive
  \/ GetTokensExceptNoun
  \/ ExceptAccessor
  \/ GetTokenSyntaxesPrimitive
  \/ SyntaxAccessor
  \/ CheckNegativeSentence

SpecSel == InitSel /\ [][NextSel]_vars

\* the ancestor walks on the walk texts
InitWalk == WalkText(text) /\ Constructed

NextWalk ==
  \/ SetDoc
  \/ GetNthDepthTokenSyntaxes
  \/ GetFullDepthTokenSyntaxes
  \/ GetNthDepthNamedEntitySyntaxes
  \/ GetFullDepthNamedEntitySyntaxes
  \/ GetNthDepthNounChunkSyntaxes
  \/ GetFullDepthNounChunkSyntaxes

SpecWalk == InitWalk /\ [][NextWalk]_vars

\* the negation classifier on the negation texts
InitNeg == NegText(text) /\ Constructed

NextNeg ==
  \/ SetDoc
  \/ CheckNegativeSentence

SpecNeg == InitNeg /\ [][NextNeg]_vars

\* the codes a caller looks up: every code of the tables and of the named
\* category sets in lower and in upper case, an unknown code, and no code
UidArgs == DOMAIN UpperCased \cup DOMAIN LowerCased \cup {NoUid}

\* A table lookup reads no Document and leaves self.doc alone.
LookupResult(op, uid, r) ==
  [op |-> op, with_text |-> FALSE, symbols |-> NoSymbols, nth |-> NoDepth,
   status |-> r.status, value |-> r.value, uid |-> uid]

ConvertTokenPosUIDToJp ==
  \E uid \in UidArgs :
    /\ ret' = LookupResult("convert_token_pos_UID_to_jp", uid,
                           convert_token_pos_UID_to_jp(uid))
    /\ UNCHANGED <<text, doc>>

ConvertTokenDepUIDToJp ==
  \E uid \in UidArgs :
    /\ ret' = LookupResult("convert_token_dep_UID_to_jp", uid,
                           convert_token_dep_UID_to_jp(uid))
    /\ UNCHANGED <<text, doc>>

\* the category tables, on an object that may hold a Document
InitTab == TabText(text) /\ Constructed

NextTab ==
  \/ SetDoc
  \/ ConvertTokenPosUIDToJp
  \/ ConvertTokenDepUIDToJp

SpecTab == InitTab /\ [][NextTab]_vars

\* ------------------------------------------------------------------- claims
HeldDocument == doc # None

AllTokens(d) == 1..Len(d.tokens)

SelectOps == {"_get_tokens"} \cup DOMAIN TokenAccessors

\* C1: for every Document and every category set S, the tokens selected by S
\* and the tokens selected excluding S partition the tokens of the Document:
\* both selections are returned, no token is in both, every token is in one.
C1_SelectAndExcludePartition ==
  (HeldDocument /\ ret.op \in SelectOps /\ ret.symbols # NoSymbols) =>
    LET e == _get_tokens_except(doc, None, ret.symbols) IN
    /\ ret.status = "ok"
    /\ e.status = "ok"
    /\ keys(ret.value) \cap keys(e.value) = {}
    /\ keys(ret.value) \cup keys(e.value) = AllTokens(doc)

\* the j-th head above token t
RECURSIVE IterHead(_, _, _)
IterHead(d, t, j) == IF j = 0 THEN t ELSE head(d, IterHead(d, t, j - 1))

IsRoot(d, t) == head(d, t) = t

\* the number of head steps from token t to the first self-headed token at
\* or above head(t), counting head(t) as step 1
RootDistance(d, t) ==
  CHOOSE j \in 1..(Len(d.tokens) + 1) :
    /\ IsRoot(d, IterHead(d, t, j))
    /\ \A i \in 1..(j - 1) : ~ IsRoot(d, IterHead(d, t, i))

Min(a, b) == IF a < b THEN a ELSE b

SentenceSize(d, t) == sent_end(d, t) - sent_start(d, t) + 1

\* [head(t), head(head(t)), ...], cut after k elements or after the root
AncestorChain(d, t, k) ==
  [j \in 1..Min(k, RootDistance(d, t)) |-> IterHead(d, t, j)]

TokenWalkOn(wellformed) ==
  /\ HeldDocument
  /\ AllTokens(doc) # {}
  /\ ret.op = "get_nth_depth_token_syntaxes"
  /\ wellformed => WellFormed(doc)

\* C2: on a well-formed Document, ancestors(t, k) returns for every token t
\* the chain [head(t), head(head(t)), ...], closest first, cut after k
\* elements or after the self-headed root has been appended once.
C2_AncestorsIsHeadChain ==
  TokenWalkOn(TRUE) =>
    /\ ret.status = "ok"
    /\ DOMAIN ret.value = AllTokens(doc)
    /\ \A t \in AllTokens(doc) : ret.value[t] = AncestorChain(doc, t, ret.nth)

\* The loop where a call reaches it: the noun-chunk walk returns, for every
\* chunk of a well-formed Document, the head chain of the chunk's root, in at
\* most min(nth, tokens in the sentence) steps.
ChunkWalkIsHeadChain ==
  (HeldDocument /\ ret.op = "get_nth_depth_noun_chunk_syntaxes" /\ WellFormed(doc)) =>
    /\ ret.status = "ok"
    /\ \A c \in 1..Len(doc.noun_chunks) :
         LET t == doc.noun_chunks[c].root IN
         /\ ret.value[c] = AncestorChain(doc, t, ret.nth)
         /\ Len(ret.value[c]) <= Min(ret.nth, SentenceSize(doc, t))

\* C3: for every k >= 1, ancestors(root, k) is the one-element chain [root]
\* for the self-headed root of every sentence.
C3_RootChainIsRoot ==
  (TokenWalkOn(TRUE) /\ ret.nth >= 1) =>
    /\ ret.status = "ok"
    /\ \A t \in AllTokens(doc) : IsRoot(doc, t) => ret.value[t] = <<t>>

\* C4: with max_depth = 0 the result has an entry for every token and every
\* entry is the empty chain.
C4_DepthZeroIsEmpty ==
  (TokenWalkOn(FALSE) /\ ret.nth = 0) =>
    /\ ret.status = "ok"
    /\ DOMAIN ret.value = AllTokens(doc)
    /\ \A t \in AllTokens(doc) : ret.value[t] = <<>>

\* C5: on a well-formed Document the walk returns for every token and every
\* max_depth, after at most min(max_depth, tokens in the sentence) steps
\* (one step appends one token).
C5_WalkTerminatesBounded ==
  TokenWalkOn(TRUE) =>
    /\ ret.status = "ok"
    /\ \A t \in AllTokens(doc) :
         Len(ret.value[t]) <= Min(ret.nth, SentenceSize(doc, t))

\* C6: full_ancestors returns for every token of the current Document,
\* submitted with the call or already held, the complete chain: it ends in
\* the self-headed root and equals ancestors(t, k) for every k >= the
\* sentence's token count.
C6_FullAncestorsReachRoot ==
  (HeldDocument /\ AllTokens(doc) # {} /\ ret.op = "get_full_depth_token_syntaxes"
     /\ WellFormed(doc)) =>
    /\ ret.status = "ok"
    /\ DOMAIN ret.value = AllTokens(doc)
    /\ \A t \in AllTokens(doc) :
         /\ IsRoot(doc, ret.value[t][Len(ret.value[t])])
         /\ \A k \in SentenceSize(doc, t)..(Len(doc.tokens) + MaxPad + 1) :
              ret.value[t] = AncestorChain(doc, t, k)

\* C7: for every entity e, chunk c and max_depth k, the entity walk and the
\* chunk walk return the chain the token walk returns for the span's root
\* token, keyed by the entity / chunk.
C7_SpanWalkIsRootTokenWalk ==
  LET spans == IF ~ HeldDocument THEN <<>>
               ELSE IF ret.op = "get_nth_depth_named_entity_syntaxes" THEN doc.ents
               ELSE doc.noun_chunks
      tokenwalk == get_nth_depth_token_syntaxes(doc, None, ret.nth)
  IN
  (HeldDocument /\ ret.op \in {"get_nth_depth_named_entity_syntaxes",
                                "get_nth_depth_noun_chunk_syntaxes"}
     /\ Len(spans) > 0) =>
    /\ ret.status = "ok"
    /\ tokenwalk.status = "ok"
    /\ DOMAIN ret.value = 1..Len(spans)
    /\ \A c \in 1..Len(spans) : ret.value[c] = tokenwalk.value[spans[c].root]

\* The rule table of the classifier: lemma, part of speech, the head's part
\* of speech ("any": no head constraint) and whether the token must be a
\* stop-word.
Rule(lemma, pos, head_pos, stop) ==
  [lemma |-> lemma, pos |-> pos, head_pos |-> head_pos, stop |-> stop]

RuleTable ==
  {Rule("nai", "AUX", h, TRUE) : h \in {"VERB", "NOUN", "ADV"}}
  \cup {Rule("nai", "ADJ", h, TRUE) : h \in {"NOUN", "VERB", "ADJ", "ADV"}}
  \cup {Rule("nu", "AUX", "VERB", TRUE)}
  \cup {Rule("zu", "AUX", h, TRUE) : h \in {"VERB", "ADV"}}
  \cup {Rule("nikui", "AUX", "VERB", FALSE)}
  \cup {Rule(l, "VERB", "any", FALSE) : l \in {"nakunaru_kana", "nakunaru_kanji"}}

RowMatches(d, t, row) ==
  /\ d.tokens[t].lemma = row.lemma
  /\ d.tokens[t].pos = row.pos
  /\ row.head_pos # "any" => d.tokens[head(d, t)].pos = row.head_pos
  /\ row.stop => d.tokens[t].is_stop

SomeTokenMatches(d) == \E t \in AllTokens(d), row \in RuleTable : RowMatches(d, t, row)

ClassifiedDocument ==
  HeldDocument /\ ret.op = "check_negative_sentence" /\ ret.status = "ok"

\* C8: is_negative(D) is true exactly when some token of D matches a row of
\* the rule table on lemma, part of speech and head part of speech, being a
\* stop-word too unless the row is the "difficult-to" row or a "no-longer"
\* row; it is false otherwise.
C8_NegativeIffRuleMatches ==
  /\ (HeldDocument /\ ret.op = "check_negative_sentence") => ret.status = "ok"
  /\ ClassifiedDocument => (ret.value = SomeTokenMatches(doc))

\* C8's case: the only AUX token has lemma "nai", is a stop-word and has a
\* VERB head, and the classifier answered true
C8_Witness ==
  /\ ClassifiedDocument
  /\ ret.value = TRUE
  /\ \E t \in AllTokens(doc) :
       /\ doc.tokens[t].pos = "AUX" /\ doc.tokens[t].lemma = "nai"
       /\ doc.tokens[t].is_stop /\ doc.tokens[head(doc, t)].pos = "VERB"
       /\ \A u \in AllTokens(doc) \ {t} : doc.tokens[u].pos # "AUX"

\* D1 ++ D2: the sentences of D1 followed by those of D2
Shift(spans, by) ==
  [k \in 1..Len(spans) |->
     Span(spans[k].start + by, spans[k].end + by, spans[k].root + by)]

Concat(d1, d2) ==
  LET n == Len(d1.tokens) IN
  Document(d1.tokens \o [i \in 1..Len(d2.tokens) |->
                           [d2.tokens[i] EXCEPT !.head = d2.tokens[i].head + n]],
           d1.ents \o Shift(d2.ents, n),
           d1.noun_chunks \o Shift(d2.noun_chunks, n))

\* the Documents concatenated to the classified one: every sequence of up
\* to MaxConcatTokens one-token sentences, each a token that matches by its
\* lemma alone, one that matches through its head (itself), or one that
\* matches no rule
ConcatAttrs ==
  {Attr("VERB", "nakunaru_kana", FALSE), Attr("ADJ", "nai", TRUE), Attr("NOUN", "suru", FALSE)}

ConcatDocs ==
  UNION {{MakeDoc(n, [starts |-> [i \in 1..n |-> TRUE], heads |-> [i \in 1..n |-> i]],
                  a, [i \in 1..n |-> "ROOT"], 0) : a \in [1..n -> ConcatAttrs]}
         : n \in 0..MaxConcatTokens}

is_negative(d) == check_negative_sentence(None, Text(d, Len(d.tokens))).value

\* C9: if is_negative(D1) is true then is_negative(D1 ++ D2) and
\* is_negative(D2 ++ D1) are true for every Document D2.
C9_NegativeMonotonicUnderConcat ==
  (ClassifiedDocument /\ ret.value = TRUE) =>
    \A d2 \in ConcatDocs :
      /\ is_negative(Concat(doc, d2)) = TRUE
      /\ is_negative(Concat(d2, doc)) = TRUE

\* C9's case: a negative Document whose match is not its first token, and
\* a non-negative D2 to put before and after it
C9_Witness ==
  /\ ClassifiedDocument
  /\ ret.value = TRUE
  /\ Len(doc.tokens) > 1
  /\ ~ token_is_negative(doc, 1)
  /\ \E d2 \in ConcatDocs :
       /\ Len(d2.tokens) > 0
       /\ ~ is_negative(d2)
       /\ is_negative(Concat(d2, doc))
       /\ is_negative(Concat(doc, d2))

\* C10: on a Document with no sentence and no token every selector returns
\* an empty sequence and is_negative returns false; none of them fails.
C10_EmptyDocumentEmptyResults ==
  (HeldDocument /\ Len(doc.tokens) = 0 /\ ret.op \notin {"__init__", "set_doc"}) =>
    /\ ret.status = "ok"
    /\ ret.op = "check_negative_sentence" => ret.value = FALSE
    /\ ret.op # "check_negative_sentence" => ret.value = <<>>

LookupOps == {"convert_token_pos_UID_to_jp", "convert_token_dep_UID_to_jp"}

TableOf(op) == IF op = "convert_token_pos_UID_to_jp" THEN pos_uid_to_jp ELSE dep_uid_to_jp

\* the key a lookup reads: the code upper-cased (part of speech) or
\* lower-cased (relation)
KeyOf(op, uid) == IF op = "convert_token_pos_UID_to_jp" THEN upper(uid) ELSE lower(uid)

\* C11 as stated: a lookup of a code that is in the table returns its display
\* name; a lookup of a code that is not in the table fails with a lookup
\* error and returns no name; a lookup with no argument returns the mapping.
C11_LookupByCodeAsGiven ==
  ret.op \in LookupOps =>
    LET uid_to_jp == TableOf(ret.op) IN
    /\ ret.uid = NoUid => (ret.status = "ok" /\ ret.value = uid_to_jp)
    /\ ret.uid \in DOMAIN uid_to_jp =>
         (ret.status = "ok" /\ ret.value = uid_to_jp[ret.uid])
    /\ (ret.uid # NoUid /\ ret.uid \notin DOMAIN uid_to_jp) => ret.status = "KeyError"

\* C11 amended: the code is upper-cased (part of speech) or lower-cased
\* (relation) first; if that key is in the table the lookup returns its
\* display name, the same on every call; if it is not, the lookup fails with
\* KeyError and returns no name; with no argument it returns the mapping.
C11_LookupByNormalisedCode ==
  ret.op \in LookupOps =>
    LET uid_to_jp == TableOf(ret.op)
        key == KeyOf(ret.op, ret.uid)
    IN
    /\ ret.uid = NoUid => (ret.status = "ok" /\ ret.value = uid_to_jp)
    /\ (ret.uid # NoUid /\ key \in DOMAIN uid_to_jp) =>
         (ret.status = "ok" /\ ret.value = uid_to_jp[key])
    /\ (ret.uid # NoUid /\ key \notin DOMAIN uid_to_jp) =>
         (ret.status = "KeyError" /\ ret.value = None)

\* C11's case: a code that is no key of the relation table as written
\* ("ROOT", the provider's spelling) is looked up and the name of "root"
\* is returned
C11_Witness ==
  /\ ret.op = "convert_token_dep_UID_to_jp"
  /\ ret.uid = "ROOT"
  /\ "ROOT" \notin DOMAIN dep_uid_to_jp
  /\ ret.status = "ok"
  /\ ret.value = dep_uid_to_jp["root"]

\* the codes of the named token sets and of the named relation groups
NamedPosCodes ==
  (UNION {TokenAccessors[a] : a \in DOMAIN TokenAccessors}
   \cup UNION {ExceptAccessors[a] : a \in DOMAIN ExceptAccessors}
   \cup NounSymbols \cup MeaningfulSymbols) \ NoSymbols

NamedRelationCodes ==
  UNION {SyntaxAccessors[a] : a \in DOMAIN SyntaxAccessors} \ NoSymbols

\* C17: every part-of-speech code of the named token sets is recognized by
\* the part-of-speech table and every relation code of the named relation
\* groups by the relation table: the lookup of such a code never fails.
C17_NamedCodesAreRecognized ==
  /\ (ret.op = "convert_token_pos_UID_to_jp" /\ ret.uid \in NamedPosCodes) =>
       ret.status = "ok"
  /\ (ret.op = "convert_token_dep_UID_to_jp" /\ ret.uid \in NamedRelationCodes) =>
       ret.status = "ok"

\* C12: on a well-formed Document of N sentences the root-relation selector
\* returns exactly N pairs, the k-th being (t, t) for the self-headed root t
\* of the k-th sentence.
C12_RootSelectorOnePerSentence ==
  (ret.op = "get_root_token_syntaxes" /\ HeldDocument /\ WellFormed(doc)) =>
    /\ ret.status = "ok"
    /\ Len(ret.value) = Len(sents(doc))
    /\ \A k \in 1..Len(ret.value) :
         LET t == ret.value[k][1]
             h == ret.value[k][2]
             sent == sents(doc)[k]
         IN
         /\ h = t
         /\ IsRoot(doc, t)
         /\ sent[1] <= t /\ t <= sent[2]

\* C12's case: the selector has answered on a Document of two sentences
C12_Witness ==
  /\ ret.op = "get_root_token_syntaxes"
  /\ HeldDocument
  /\ WellFormed(doc)
  /\ Len(sents(doc)) = 2
  /\ ret.status = "ok"
  /\ Len(ret.value) = 2

\* token t lies on, or leads into, a head cycle with no self-headed token
OnRootlessCycle(d, t) ==
  ~ reaches_root([i \in 1..Len(d.tokens) |-> head(d, i)], t, Len(d.tokens))

\* C13: on a malformed Document with a head cycle that has no self-headed
\* root, the ancestor walk from a token of the cycle returns for every
\* max_depth k, with exactly k tokens appended.
C13_CycleWalkStopsAtDepth ==
  (HeldDocument /\ ret.op = "get_nth_depth_token_syntaxes"
     /\ \E t \in AllTokens(doc) : OnRootlessCycle(doc, t)) =>
    /\ ret.status = "ok"
    /\ \A t \in AllTokens(doc) :
         OnRootlessCycle(doc, t) => Len(ret.value[t]) = ret.nth

\* The loop where a call reaches it: the noun-chunk walk from a chunk whose
\* root is on a rootless cycle returns with exactly nth tokens appended.
ChunkWalkStopsAtDepthOnCycle ==
  (HeldDocument /\ ret.op = "get_nth_depth_noun_chunk_syntaxes") =>
    /\ ret.status = "ok"
    /\ \A c \in 1..Len(doc.noun_chunks) :
         OnRootlessCycle(doc, doc.noun_chunks[c].root) =>
           Len(ret.value[c]) = ret.nth

\* a chunk walk of depth 4 has gone round a rootless cycle
ChunkWalkOnCycleReached ==
  /\ HeldDocument
  /\ ret.op = "get_nth_depth_noun_chunk_syntaxes"
  /\ ret.nth = 4
  /\ \E c \in 1..Len(doc.noun_chunks) : OnRootlessCycle(doc, doc.noun_chunks[c].root)

\* the rules of token i that match
MatchingRules(d, i) == {r \in 1..NumRules : negative_rule(r, d, i)}

\* the rule list in another order: rotated by any number of places, or
\* reversed
RuleOrders ==
  {[r \in 1..NumRules |-> ((r + shift - 1) % NumRules) + 1] : shift \in 0..(NumRules - 1)}
  \cup {[r \in 1..NumRules |-> NumRules + 1 - r]}

\* the loop body with its if-statements in the given order
RECURSIVE token_is_negative_in_order(_, _, _, _)
token_is_negative_in_order(d, i, order, k) ==
  IF k > NumRules THEN FALSE
  ELSE IF negative_rule(order[k], d, i) THEN TRUE
  ELSE token_is_negative_in_order(d, i, order, k + 1)

is_negative_in_order(d, order) ==
  \E k \in 1..Len(sent_tokens(d)) :
    token_is_negative_in_order(d, sent_tokens(d)[k], order, 1)

\* C14: the negation rules are mutually exclusive: on every token of the
\* classified Document at most one rule matches, and the classifier's answer
\* is the answer of the rule list in every other order.
C14_RulesMutuallyExclusive ==
  ClassifiedDocument =>
    /\ \A i \in AllTokens(doc) : Cardinality(MatchingRules(doc, i)) <= 1
    /\ \A order \in RuleOrders : ret.value = is_negative_in_order(doc, order)

\* C14's case: a Document classified negative whose second token matches
\* exactly one rule, the second "nai" rule of the adjective
C14_Witness ==
  /\ ClassifiedDocument
  /\ ret.value = TRUE
  /\ Len(doc.tokens) = 2
  /\ MatchingRules(doc, 1) = {}
  /\ MatchingRules(doc, 2) = {5}

\* C15: the "meaningful tokens" accessor returns, in document order, the
\* tokens whose code is NOUN, PROPN, PRON, VERB, ADJ or ADV and whose head's
\* code is none of NOUN, PROPN, PRON.
C15_MeaningfulTokensFiltered ==
  (HeldDocument /\ AllTokens(doc) # {} /\ ret.op = "get_meaningful_tokens") =>
    /\ ret.status = "ok"
    /\ ret.value =
         SelectSeq(sent_tokens(doc),
                   LAMBDA i :
                     /\ doc.tokens[i].pos \in {"NOUN", "PROPN", "PRON", "VERB", "ADJ", "ADV"}
                     /\ doc.tokens[head(doc, i)].pos \notin {"NOUN", "PROPN", "PRON"})

\* the call just made repeats the one before it, both without a text
RepeatedWithoutText ==
  /\ ~ ret.with_text
  /\ ~ ret'.with_text
  /\ ret'.op = ret.op
  /\ ret'.symbols = ret.symbols
  /\ ret'.nth = ret.nth

\* C16: the held Document is the parse of the most recently submitted text:
\* a call with a text leaves the parse of that text held, a call without a
\* text leaves the held Document as it was, and a call repeated without a
\* text on the unchanged Document gives the result it gave before.
C16_HeldDocumentIsLatestParse ==
  [][/\ ret'.with_text => doc' = nlp(text)
     /\ ~ ret'.with_text => doc' = doc
     /\ (RepeatedWithoutText /\ doc' = doc) =>
          (ret'.status = ret.status /\ ret'.value = ret.value)]_vars

====
